---- MODULE Spec2Model ----
(***************************************************************************)
(* Model of app.py: extraction of a line-item table from the tables of a   *)
(* PDF, selection of items, and population of a Word template.             *)
(*                                                                         *)
(* A Python str is a sequence of one-character strings; "" is <<>>.        *)
(* A Python dict is a function whose DOMAIN is its set of keys.            *)
(***************************************************************************)
EXTENDS Integers, Sequences, FiniteSets, TLC

VARIABLES
    \* find_header_indices / extract_table_items applied to one table
    table, header_info, items, tpc,
    \* extract_items_from_pdf applied to one document
    pdf, pdf_items, ppc,
    \* parse_selected_items / filter_items
    entry_text, f_items, selected, filtered, fpc,
    \* fill_items_table applied to one template document
    doc_opened, doc, fill_arg, dpc,
    \* AtaApp: its fields, and the position of a generate_office run
    pdf_paths, template_path, entry_itens, entry_nome, pc, path_idx,
    selected_tokens, all_items, filtered_items, document, messages, saved, steps

tableVars == <<table, header_info, items, tpc>>
pdfVars == <<pdf, pdf_items, ppc>>
filterVars == <<entry_text, f_items, selected, filtered, fpc>>
fillVars == <<doc_opened, doc, fill_arg, dpc>>
appVars == <<pdf_paths, template_path, entry_itens, entry_nome, pc, path_idx,
             selected_tokens, all_items, filtered_items, document, messages,
             saved, steps>>
vars == <<tableVars, pdfVars, filterVars, fillVars, appVars>>

(***************************************************************************)
(* Bounds of the model.                                                    *)
(***************************************************************************)
MaxDataRows == 4

MaxPdfTables == 2

MaxPages == 2

MaxItems == 3

MaxDocTables == 2

MaxPaths == 2

(***************************************************************************)
(* Strings.                                                                *)
(***************************************************************************)
\* Python's None where a str is expected; no str equals it.
None == <<"None">>

NL == "\n"

Whitespace == {" ", "\t", NL, "\r"}

Digits == {"0", "1", "2", "3", "4", "5", "6", "7", "8", "9"}

LowerChars == <<"a", "b", "c", "d", "e", "f", "g", "h", "i", "j", "k", "l", "m",
                "n", "o", "p", "q", "r", "s", "t", "u", "v", "w", "x", "y", "z",
                "ç", "ã", "á">>

UpperChars == <<"A", "B", "C", "D", "E", "F", "G", "H", "I", "J", "K", "L", "M",
                "N", "O", "P", "Q", "R", "S", "T", "U", "V", "W", "X", "Y", "Z",
                "Ç", "Ã", "Á">>

\* str.upper() and str.lower(), one character
UpperChar(c) ==
    IF \E i \in DOMAIN LowerChars : LowerChars[i] = c
    THEN UpperChars[CHOOSE i \in DOMAIN LowerChars : LowerChars[i] = c]
    ELSE c

LowerChar(c) ==
    IF \E i \in DOMAIN UpperChars : UpperChars[i] = c
    THEN LowerChars[CHOOSE i \in DOMAIN UpperChars : UpperChars[i] = c]
    ELSE c

upper(s) == [i \in 1..Len(s) |-> UpperChar(s[i])]

lower(s) == [i \in 1..Len(s) |-> LowerChar(s[i])]

RECURSIVE lstrip(_)
lstrip(s) == IF s # <<>> /\ Head(s) \in Whitespace THEN lstrip(Tail(s)) ELSE s

RECURSIVE rstrip(_)
rstrip(s) ==
    IF s # <<>> /\ s[Len(s)] \in Whitespace
    THEN rstrip(SubSeq(s, 1, Len(s) - 1))
    ELSE s

\* str.strip()
strip(s) == rstrip(lstrip(s))

\* Python's `a or b` on strings
Or(a, b) == IF a # <<>> THEN a ELSE b

\* Python's `hint in cell`
Contains(cell, hint) ==
    \E i \in 1..(Len(cell) - Len(hint) + 1) :
        SubSeq(cell, i, i + Len(hint) - 1) = hint

\* Python's `any(row)` on a list of strings
any(row) == \E i \in DOMAIN row : row[i] # <<>>

(***************************************************************************)
(* Normalizer.                                                             *)
(***************************************************************************)
normalize_text(value) == strip(IF value = None THEN <<>> ELSE value)

\* re.sub(r"\D", "", value or "")
OnlyDigits(value) ==
    LET v == IF value = None THEN <<>> ELSE value
    IN  SelectSeq(v, LAMBDA c : c \in Digits)

normalize_item_code(value) ==
    LET digits == OnlyDigits(value)
    IN  Or(digits, lower(normalize_text(value)))

(***************************************************************************)
(* Header Locator.                                                         *)
(***************************************************************************)
\* The keys of HEADER_HINTS in insertion order.
Roles == <<"item", "description", "quantity", "unit_value", "total_value">>

Mandatory == {"item", "description", "quantity", "unit_value"}

HEADER_HINTS == [
    item |-> <<<<"I", "T", "E", "M">>,
        <<"N", "º">>,
        <<"N", "°">>,
        <<"N", "U", "M">>,
        <<"N", ".", " ", "D", "O", " ", "I", "T", "E", "M">>>>,
    description |-> <<<<"D", "E", "S", "C", "R", "I">>,
        <<"E", "S", "P", "E", "C", "I", "F">>,
        <<"D", "E", "S", "C", "R", "I", "Ç", "Ã", "O">>>>,
    quantity |-> <<<<"Q", "U", "A", "N", "T">>,
        <<"Q", "T", "D">>,
        <<"Q", "T", "D", "E">>,
        <<"Q", "U", "A", "N", "T", "I", "D", "A", "D", "E">>>>,
    unit_value |-> <<<<"V", "A", "L", "O", "R", " ", "U", "N", "I", "T">>,
        <<"V", "L", "R", " ", "U", "N", "I", "T">>,
        <<"U", "N", "I", "T", "Á", "R", "I", "O">>,
        <<"U", "N", "I", "T">>>>,
    total_value |-> <<<<"V", "A", "L", "O", "R", " ", "T", "O", "T", "A", "L">>,
        <<"T", "O", "T", "A", "L", " ", "(", "R", "$", ")">>,
        <<"T", "O", "T", "A", "L">>>>]

\* any(hint in cell for hint in hints)
AnyHintIn(key, cell) ==
    \E h \in DOMAIN HEADER_HINTS[key] : Contains(cell, HEADER_HINTS[key][h])

EmptyDict == [k \in {} |-> 0]

\* The inner loop over HEADER_HINTS.items() for one cell (k: position in Roles).
RECURSIVE MapKeys(_, _, _, _)
MapKeys(cell, col_index, k, mapping) ==
    IF k > Len(Roles) THEN mapping
    ELSE LET key == Roles[k]
         IN  IF key \in DOMAIN mapping
             THEN MapKeys(cell, col_index, k + 1, mapping)
             ELSE IF AnyHintIn(key, cell)
                  THEN MapKeys(cell, col_index, k + 1, mapping @@ (key :> col_index))
                  ELSE MapKeys(cell, col_index, k + 1, mapping)

\* The loop over enumerate(upper); col_index is 0-based as in the source.
RECURSIVE MapCols(_, _, _)
MapCols(upperRow, col_index, mapping) ==
    IF col_index >= Len(upperRow) THEN mapping
    ELSE MapCols(upperRow, col_index + 1,
                 MapKeys(upperRow[col_index + 1], col_index, 1, mapping))

NotFound == [found |-> FALSE]

\* The loop over enumerate(table); idx is 0-based as in the source.
RECURSIVE FindHeaderFrom(_, _)
FindHeaderFrom(t, idx) ==
    IF idx >= Len(t) THEN NotFound
    ELSE LET row == t[idx + 1]
             upperRow == [i \in 1..Len(row) |-> upper(normalize_text(row[i]))]
             mapping == MapCols(upperRow, 0, EmptyDict)
         IN  IF ~any(upperRow) THEN FindHeaderFrom(t, idx + 1)
             ELSE IF Mandatory \subseteq DOMAIN mapping
                  THEN [found |-> TRUE, header_idx |-> idx, mapping |-> mapping]
                  ELSE FindHeaderFrom(t, idx + 1)

find_header_indices(t) == FindHeaderFrom(t, 0)

(***************************************************************************)
(* Table Extractor.                                                        *)
(***************************************************************************)
\* get(col_key) of extract_table_items, on the normalized row
Get(row, mapping, col_key) ==
    IF col_key \notin DOMAIN mapping THEN <<>>
    ELSE IF mapping[col_key] < Len(row) THEN row[mapping[col_key] + 1] ELSE <<>>

NormRow(raw_row) == [i \in 1..Len(raw_row) |-> normalize_text(raw_row[i])]

\* The loop's state: the list `items`, and `current`: has = FALSE is None;
\* at is the position in items of the dict current refers to (0: not in items).
InitExtract == [items |-> <<>>, has |-> FALSE, at |-> 0,
                cur |-> [item |-> <<>>, description |-> <<>>, quantity |-> <<>>,
                         unit_value |-> <<>>, total_value |-> <<>>]]

KeepCurrent(st) == st

\* current = None
ResetCurrent(st) == [st EXCEPT !.has = FALSE, !.at = 0]

\* current = {...}; if any(current.values()): items.append(current)
StartRecord(st, row, mapping) ==
    LET new == [item |-> Get(row, mapping, "item"),
                description |-> Get(row, mapping, "description"),
                quantity |-> Get(row, mapping, "quantity"),
                unit_value |-> Get(row, mapping, "unit_value"),
                total_value |-> Get(row, mapping, "total_value")]
        nonempty == \E k \in DOMAIN new : new[k] # <<>>
    IN  [items |-> IF nonempty THEN Append(st.items, new) ELSE st.items,
         has |-> TRUE,
         at |-> IF nonempty THEN Len(st.items) + 1 ELSE 0,
         cur |-> new]

\* One numeric field of a continuation row (lines 95-100).
Backfill(st, row, mapping, key) ==
    IF key \in DOMAIN mapping /\ Get(row, mapping, key) # <<>>
    THEN Or(Get(row, mapping, key), st.cur[key])
    ELSE st.cur[key]

MergeNewRecord(st, row, mapping) ==
    [st EXCEPT !.items = Append(st.items,
                   [st.cur EXCEPT !.description = Get(row, mapping, "description")])]

\* The continuation branch; current is the dict held in items, so the update
\* shows there.
MergeContinuation(st, row, mapping) ==
    LET upd == [st.cur EXCEPT
                  !.description = strip(st.cur.description \o <<NL>>
                                        \o Get(row, mapping, "description")),
                  !.quantity = Backfill(st, row, mapping, "quantity"),
                  !.unit_value = Backfill(st, row, mapping, "unit_value"),
                  !.total_value = Backfill(st, row, mapping, "total_value")]
    IN  [st EXCEPT !.cur = upd,
                   !.items = IF st.at > 0 THEN [st.items EXCEPT ![st.at] = upd]
                             ELSE st.items]

\* The body of the loop over table[header_idx + 1:].
ExtractRow(st, raw_row, mapping) ==
    LET row == NormRow(raw_row)
        item_code == Get(row, mapping, "item")
        desc_text == Get(row, mapping, "description")
    IN  IF ~any(row) THEN ResetCurrent(st)
        ELSE IF item_code # <<>> THEN StartRecord(st, row, mapping)
        ELSE IF st.has /\ desc_text # <<>> THEN MergeContinuation(st, row, mapping)
        ELSE st

RECURSIVE ExtractRows(_, _, _, _)
ExtractRows(t, r, mapping, st) ==
    IF r > Len(t) THEN st
    ELSE ExtractRows(t, r + 1, mapping, ExtractRow(st, t[r], mapping))

\* header_idx is 0-based: the first data row is t[header_idx + 2].
extract_table_items(t, header_idx, mapping) ==
    ExtractRows(t, header_idx + 2, mapping, InitExtract).items

(***************************************************************************)
(* Tables the extractor is applied to.                                     *)
(***************************************************************************)
HeaderRow == <<<<"I", "t", "e", "m">>,
               <<"D", "e", "s", "c", "r", "i", "ç", "ã", "o">>,
               <<"Q", "t", "d">>,
               <<"V", "a", "l", "o", "r", " ", "U", "n", "i", "t">>,
               <<"V", "a", "l", "o", "r", " ", "T", "o", "t", "a", "l">>>>

\* one cell carries hints of two roles
SharedHeaderRow == <<<<"N", ".", " ", "d", "o", " ", "I", "t", "e", "m">>,
                     <<"E", "s", "p", "e", "c", "i", "f", ".">>,
                     <<"Q", "u", "a", "n", "t", ".">>,
                     <<"V", "a", "l", "o", "r", " ", "U", "n", "i", "t", " ", "/", " ",
                       "T", "o", "t", "a", "l">>,
                     <<>>>>

BlankRow == <<<<>>, <<" ">>, <<>>, <<>>, <<>>>>

CodeRow1 == <<<<"1">>, <<"w">>, <<"2">>, <<>>, <<>>>>

CodeRow2 == <<<<" ", "2", " ">>, <<>>, <<>>, <<>>, <<>>>>

ContRowQ == <<<<>>, <<"y">>, <<"5">>, <<"7">>, <<>>>>

\* shorter than the header: the value columns lie beyond its end
QtyOnlyRow == <<<<>>, <<>>, <<"8">>>>

HeaderPool == {HeaderRow, SharedHeaderRow}

\* rows that may precede the header row
PrefixPool == {<<>>, <<BlankRow, QtyOnlyRow>>}

\* rows after the header row; the header row may be repeated
DataPool == {BlankRow, CodeRow1, CodeRow2, ContRowQ, QtyOnlyRow, HeaderRow}

SeqsUpTo(S, n) == UNION {[1..k -> S] : k \in 0..n}

Tables ==
    {p \o <<h>> \o d : p \in PrefixPool, h \in HeaderPool,
                       d \in SeqsUpTo(DataPool, MaxDataRows)}

(***************************************************************************)
(* The values the variables of an operation hold while another operation   *)
(* is the one under study.                                                 *)
(***************************************************************************)
IdleTable == table = <<>> /\ header_info = NotFound /\ items = <<>> /\ tpc = "idle"

IdlePdf ==
    pdf = [readable |-> FALSE, pages |-> <<>>] /\ pdf_items = <<>> /\ ppc = "idle"

IdleFilter ==
    entry_text = <<>> /\ f_items = <<>> /\ selected = <<>> /\ filtered = <<>>
    /\ fpc = "idle"

IdleFill == doc_opened = <<>> /\ doc = <<>> /\ fill_arg = <<>> /\ dpc = "idle"

IdleApp ==
    pdf_paths = <<>> /\ template_path = "" /\ entry_itens = <<>>
    /\ entry_nome = <<>> /\ pc = "off" /\ path_idx = 0 /\ selected_tokens = <<>>
    /\ all_items = <<>> /\ filtered_items = <<>> /\ document = <<>>
    /\ messages = <<>> /\ saved = <<>> /\ steps = <<>>

(***************************************************************************)
(* Header Locator and Table Extractor applied to a table, as               *)
(* extract_items_from_pdf applies them (lines 117-120 and 129-130).        *)
(***************************************************************************)
InitTable ==
    /\ table \in Tables
    /\ header_info = NotFound
    /\ items = <<>>
    /\ tpc = "start"
    /\ IdlePdf /\ IdleFilter /\ IdleFill /\ IdleApp

FindHeaderIndices ==
    /\ tpc = "start"
    /\ header_info' = find_header_indices(table)
    /\ tpc' = IF header_info'.found THEN "header" ELSE "no_header"
    /\ UNCHANGED <<table, items, pdfVars, filterVars, fillVars, appVars>>

ExtractTableItems ==
    /\ tpc = "header"
    /\ items' = extract_table_items(table, header_info.header_idx, header_info.mapping)
    /\ tpc' = "done"
    /\ UNCHANGED <<table, header_info, pdfVars, filterVars, fillVars, appVars>>

NextTable == FindHeaderIndices \/ ExtractTableItems

SpecTable == InitTable /\ [][NextTable]_vars

(***************************************************************************)
(* What the rows of `table` are, read off the table itself.                *)
(***************************************************************************)
\* the header row's position in the sequence `table`
HdrRow == header_info.header_idx + 1

DataRows == (HdrRow + 1)..Len(table)

IsBlankAt(r) == ~any(NormRow(table[r]))

CellAt(r, key) == Get(NormRow(table[r]), header_info.mapping, key)

\* the rows bearing an item code
CodeRowSet == {r \in DataRows : CellAt(r, "item") # <<>>}

\* a non-blank row with an empty item cell and a non-empty description cell
ContShape(r) ==
    ~IsBlankAt(r) /\ CellAt(r, "item") = <<>> /\ CellAt(r, "description") # <<>>

SetMax(S) == CHOOSE x \in S : \A y \in S : y <= x

SetMin(S) == CHOOSE x \in S : \A y \in S : x <= y

RECURSIVE SortedSeq(_)
SortedSeq(S) == IF S = {} THEN <<>> ELSE <<SetMin(S)>> \o SortedSeq(S \ {SetMin(S)})

\* the code-bearing row that row r continues: the most recent one before r
\* with no wholly blank row in between; 0 when there is none
Owner(r) ==
    LET before == {c \in CodeRowSet : c < r}
    IN  IF before = {} THEN 0
        ELSE IF \E b \in (SetMax(before) + 1)..(r - 1) : IsBlankAt(b) THEN 0
        ELSE SetMax(before)

\* the continuation rows of code-bearing row c, in table order
ContsOf(c) == SortedSeq({r \in DataRows : ContShape(r) /\ Owner(r) = c})

RECURSIVE JoinLines(_, _, _)
JoinLines(acc, rows, stripped) ==
    IF rows = <<>> THEN acc
    ELSE LET joined == acc \o <<NL>> \o CellAt(Head(rows), "description")
         IN  JoinLines(IF stripped THEN strip(joined) ELSE joined, Tail(rows), stripped)

RECURSIVE FirstNonEmpty(_, _)
FirstNonEmpty(rows, key) ==
    IF rows = <<>> THEN <<>>
    ELSE IF CellAt(Head(rows), key) # <<>> THEN CellAt(Head(rows), key)
    ELSE FirstNonEmpty(Tail(rows), key)

CodeRows == SortedSeq(CodeRowSet)

\* one record per code-bearing row, in table order, carrying its code
RecordsFollowCodeRows ==
    /\ Len(items) = Len(CodeRows)
    /\ \A k \in DOMAIN items : items[k].item = CellAt(CodeRows[k], "item")

\* the description of every record is its code row's description followed by
\* those of its continuation rows, and a record without continuation rows
\* holds its code row's values
MergedAsClaimed(stripped) ==
    /\ RecordsFollowCodeRows
    /\ \A k \in DOMAIN items :
          LET c == CodeRows[k]
          IN  /\ items[k].description =
                    JoinLines(CellAt(c, "description"), ContsOf(c), stripped)
              /\ ContsOf(c) = <<>> =>
                    \A key \in {"quantity", "unit_value", "total_value"} :
                        items[k][key] = CellAt(c, key)

\* C2: continuation rows never overwrite a value the record already holds:
\* each of quantity, unit_value, total_value is the code-bearing row's value
\* when that is non-empty, otherwise the first non-empty value of a
\* continuation row.
C2_NoOverwrite ==
    tpc = "done" =>
        /\ RecordsFollowCodeRows
        /\ \A k \in DOMAIN items :
              \A key \in {"quantity", "unit_value", "total_value"} :
                  items[k][key] =
                      IF CellAt(CodeRows[k], key) # <<>>
                      THEN CellAt(CodeRows[k], key)
                      ELSE FirstNonEmpty(ContsOf(CodeRows[k]), key)

\* C3 as stated: a row with an empty item cell and a non-empty description
\* is merged into the most recent code-bearing record, its text appended after
\* a line break, exactly when no blank row lies in between; otherwise it is
\* skipped and changes no record; no record is created for it.
C3_MergeLiteral == tpc = "done" => MergedAsClaimed(FALSE)

\* C3 amended: as C3, the description after each merge being stripped of
\* surrounding whitespace (an empty description takes the text without a
\* leading line break).
C3_MergeStripped == tpc = "done" => MergedAsClaimed(TRUE)

\* a record with an empty description took a continuation row, and a second
\* continuation row after a blank row was skipped
C3_Witness ==
    /\ tpc = "done"
    /\ \E r \in DataRows :
          ContShape(r) /\ Owner(r) # 0 /\ CellAt(Owner(r), "description") = <<>>
    /\ \E r \in DataRows :
          ContShape(r) /\ Owner(r) = 0 /\ \E c \in CodeRowSet : c < r

\* C4: the extraction is no longer than the rows after the header, and its
\* records are, in order, the rows after the header whose item cell is
\* non-empty, none of them blank.
C4_LengthAndOrigin ==
    tpc = "done" =>
        /\ Len(items) <= Len(table) - HdrRow
        /\ RecordsFollowCodeRows
        /\ \A r \in CodeRowSet : ~IsBlankAt(r)

\* an extraction of two records from a table that also has a blank row and
\* a continuation row
C4_Witness ==
    /\ tpc = "done"
    /\ Len(items) = 2
    /\ \E r \in DataRows : IsBlankAt(r)
    /\ \E r \in DataRows : ContShape(r)

\* C5: a row after the header with the header row's cells yields no record,
\* so there are at most as many records as rows that differ from the header.
C5_HeaderDuplicateNoRecord ==
    tpc = "done" =>
        Len(items) <= Cardinality({r \in DataRows : table[r] # table[HdrRow]})

\* C10: the mapping returned by find_header_indices never maps two roles to
\* the same column.
C10_OneRolePerColumn ==
    header_info.found =>
        \A k1, k2 \in DOMAIN header_info.mapping :
            k1 # k2 => header_info.mapping[k1] # header_info.mapping[k2]

(***************************************************************************)
(* Table Selector: extract_items_from_pdf.                                 *)
(***************************************************************************)
\* [[cell or "" for cell in row] for row in raw_table if row]
CleanTable(raw_table) ==
    LET kept == SelectSeq(raw_table, LAMBDA row : row # <<>>)
    IN  [r \in 1..Len(kept) |->
            [c \in 1..Len(kept[r]) |->
                IF kept[r][c] = None THEN <<>> ELSE kept[r][c]]]

NoBest == [has |-> FALSE, table |-> <<>>, header |-> NotFound, length |-> 0]

ReplacesOnTie(best, length) == ~best.has \/ length >= best.length

\* best_table is None or length > best_length
Replaces(best, length) == ~best.has \/ length > best.length

\* The body of the loop over the raw tables of a page.
ConsiderTable(best, raw_table) ==
    LET t == CleanTable(raw_table)
        info == find_header_indices(t)
        length == Len(t) - (info.header_idx + 1)
    IN  IF t = <<>> THEN best
        ELSE IF ~info.found THEN best
        ELSE IF length <= 0 THEN best
        ELSE IF Replaces(best, length)
             THEN [has |-> TRUE, table |-> t, header |-> info, length |-> length]
             ELSE best

RECURSIVE ScanTables(_, _)
ScanTables(best, raw_tables) ==
    IF raw_tables = <<>> THEN best
    ELSE ScanTables(ConsiderTable(best, Head(raw_tables)), Tail(raw_tables))

RECURSIVE ScanPages(_, _)
ScanPages(best, pages) ==
    IF pages = <<>> THEN best
    ELSE ScanPages(ScanTables(best, Head(pages)), Tail(pages))

\* The result: raised is the RuntimeError of line 132.
extract_items_from_pdf(file) ==
    IF ~file.readable THEN [raised |-> TRUE, items |-> <<>>]
    ELSE LET best == ScanPages(NoBest, file.pages)
         IN  IF best.has /\ best.table # <<>> /\ best.header.found
             THEN [raised |-> FALSE,
                   items |-> extract_table_items(best.table, best.header.header_idx,
                                                 best.header.mapping)]
             ELSE [raised |-> FALSE, items |-> <<>>]

(***************************************************************************)
(* Documents the selector is applied to.                                   *)
(***************************************************************************)
DigitSeq == <<"1", "2", "3", "4", "5", "6", "7", "8", "9">>

NumRow(i) == <<<<DigitSeq[i]>>, <<"w">>, <<"2">>, <<>>, <<>>>>

NoHeaderTable == <<QtyOnlyRow, CodeRow1>>

HeaderOnlyTable == <<BlankRow, HeaderRow>>

OneRowTableA == <<HeaderRow, CodeRow1>>

\* an empty row, dropped, and a missing cell
OneRowTableB == <<HeaderRow, <<>>, <<<<"9">>, None, <<"4">>>>, <<>>>>

ThreeRowTable == <<HeaderRow, NumRow(1), ContRowQ, NumRow(3)>>

SevenRowTable == <<HeaderRow>> \o [i \in 1..7 |-> NumRow(i)]

RawTables == {NoHeaderTable, HeaderOnlyTable, OneRowTableA, OneRowTableB,
              ThreeRowTable, SevenRowTable}

\* ts cut into pages: page i holds ts[cuts[i-1]+1 .. cuts[i]]
Paged(ts, cuts) ==
    [i \in 1..Len(cuts) |->
        SubSeq(ts, (IF i = 1 THEN 0 ELSE cuts[i - 1]) + 1, cuts[i])]

CutsOf(n) ==
    {cuts \in UNION {[1..np -> 0..n] : np \in 0..MaxPages} :
        /\ \A i \in 1..(Len(cuts) - 1) : cuts[i] <= cuts[i + 1]
        /\ IF Len(cuts) = 0 THEN n = 0 ELSE cuts[Len(cuts)] = n}

PdfPages ==
    UNION {{Paged(ts, cuts) : cuts \in CutsOf(Len(ts))} :
              ts \in SeqsUpTo(RawTables, MaxPdfTables)}

InitPdf ==
    /\ pdf \in {[readable |-> FALSE, pages |-> <<>>]}
                \cup {[readable |-> TRUE, pages |-> ps] : ps \in PdfPages}
    /\ pdf_items = <<>>
    /\ ppc = "start"
    /\ IdleTable /\ IdleFilter /\ IdleFill /\ IdleApp

ExtractItemsFromPdf ==
    /\ ppc = "start"
    /\ ~extract_items_from_pdf(pdf).raised
    /\ pdf_items' = extract_items_from_pdf(pdf).items
    /\ ppc' = "done"
    /\ UNCHANGED <<pdf, tableVars, filterVars, fillVars, appVars>>

ExtractItemsFromPdfRaises ==
    /\ ppc = "start"
    /\ extract_items_from_pdf(pdf).raised
    /\ ppc' = "raised"
    /\ UNCHANGED <<pdf, pdf_items, tableVars, filterVars, fillVars, appVars>>

NextPdf == ExtractItemsFromPdf \/ ExtractItemsFromPdfRaises

SpecPdf == InitPdf /\ [][NextPdf]_vars

\* the tables of the document in page order, then table order
FlatTables ==
    LET RECURSIVE Flat(_)
        Flat(ps) == IF ps = <<>> THEN <<>> ELSE Head(ps) \o Flat(Tail(ps))
    IN  Flat(pdf.pages)

\* for each table of the document: whether it has a valid header and a row
\* after it, how many rows follow its header, and its extraction
TableFacts ==
    [i \in DOMAIN FlatTables |->
        LET t == CleanTable(FlatTables[i])
            info == find_header_indices(t)
        IN  IF info.found /\ Len(t) - (info.header_idx + 1) >= 1
            THEN [candidate |-> TRUE,
                  rows |-> Len(t) - (info.header_idx + 1),
                  extraction |-> extract_table_items(t, info.header_idx, info.mapping)]
            ELSE [candidate |-> FALSE, rows |-> 0, extraction |-> <<>>]]

\* C6: the result is the extraction of the candidate table with the most rows
\* after the header, the first such table in page order then table order; it
\* is empty when there is no candidate; of a 3-row and a 7-row table the
\* 7-row table is extracted.
C6_LongestFirstTable ==
    ppc = "done" =>
        LET facts == TableFacts
            cands == {i \in DOMAIN facts : facts[i].candidate}
        IN  /\ cands = {} => pdf_items = <<>>
            /\ \A i \in cands :
                  (\A j \in cands :
                      \/ facts[j].rows < facts[i].rows
                      \/ facts[j].rows = facts[i].rows /\ i <= j)
                  => pdf_items = facts[i].extraction
            /\ {facts[i].rows : i \in cands} = {3, 7}
                  => Len(pdf_items) = 7 /\ pdf_items[7].item = <<"7">>

\* two candidate tables tie for the most rows and differ in their extraction;
\* the first one's is returned
C6_Witness ==
    /\ ppc = "done"
    /\ LET facts == TableFacts
       IN  \E j, k \in DOMAIN facts :
              /\ j < k
              /\ facts[j].candidate /\ facts[k].candidate
              /\ facts[j].rows = facts[k].rows
              /\ facts[j].extraction # facts[k].extraction
              /\ pdf_items = facts[j].extraction

(***************************************************************************)
(* Item Filter: parse_selected_items and filter_items.                     *)
(***************************************************************************)
\* text.split(",")
RECURSIVE SplitComma(_, _, _)
SplitComma(text, i, token) ==
    IF i > Len(text) THEN <<token>>
    ELSE IF text[i] = "," THEN <<token>> \o SplitComma(text, i + 1, <<>>)
    ELSE SplitComma(text, i + 1, Append(token, text[i]))

parse_selected_items(text) ==
    LET parts == SplitComma(text, 1, <<>>)
        tokens == [i \in 1..Len(parts) |-> normalize_text(parts[i])]
    IN  SelectSeq(tokens, LAMBDA token : token # <<>>)

\* {normalize_item_code(value) for value in selected}
NormalizedTargets(sel) == {normalize_item_code(sel[i]) : i \in DOMAIN sel}

\* the test of line 152, after the `continue` of lines 149-150
ItemSelected(item, sel) ==
    LET code == normalize_text(item.item)
    IN  /\ code # <<>>
        /\ \/ normalize_item_code(code) \in NormalizedTargets(sel)
           \/ \E i \in DOMAIN sel : sel[i] = code

KeepItemOnce(out, item) ==
    IF \E j \in DOMAIN out : out[j].item = item.item THEN out ELSE Append(out, item)

\* filtered.append(item)
KeepItem(out, item) == Append(out, item)

RECURSIVE FilterLoop(_, _, _)
FilterLoop(its, sel, out) ==
    IF its = <<>> THEN out
    ELSE FilterLoop(Tail(its), sel,
                    IF ItemSelected(Head(its), sel) THEN KeepItem(out, Head(its))
                    ELSE out)

filter_items(its, sel) == IF sel = <<>> THEN its ELSE FilterLoop(its, sel, <<>>)

(***************************************************************************)
(* Item lists and selection texts the filter is applied to.                *)
(***************************************************************************)
LineItem(code, desc) ==
    [item |-> code, description |-> desc, quantity |-> <<"2">>,
     unit_value |-> <<>>, total_value |-> <<>>]

ItemPool == {LineItem(<<"3">>, <<"a">>), LineItem(<<"3">>, <<"b">>),
             LineItem(<<"4">>, <<"c">>), LineItem(<<"1", "0">>, <<"d">>),
             LineItem(<<"0", "3">>, <<"e">>), LineItem(<<"A", "b">>, <<"f">>)}

\* "", "03,4", "3", " ab ,", "10,,3", "03"
TextPool == {<<>>,
             <<"0", "3", ",", "4">>,
             <<"3">>,
             <<" ", "a", "b", " ", ",">>,
             <<"1", "0", ",", ",", "3">>,
             <<"0", "3">>}

InitFilter ==
    /\ entry_text \in TextPool
    /\ f_items \in SeqsUpTo(ItemPool, MaxItems)
    /\ selected = <<>>
    /\ filtered = <<>>
    /\ fpc = "start"
    /\ IdleTable /\ IdlePdf /\ IdleFill /\ IdleApp

ParseSelectedItems ==
    /\ fpc = "start"
    /\ selected' = parse_selected_items(entry_text)
    /\ fpc' = "parsed"
    /\ UNCHANGED <<entry_text, f_items, filtered, tableVars, pdfVars, fillVars, appVars>>

FilterItems ==
    /\ fpc = "parsed"
    /\ filtered' = filter_items(f_items, selected)
    /\ fpc' = "done"
    /\ UNCHANGED <<entry_text, f_items, selected, tableVars, pdfVars, fillVars, appVars>>

NextFilter == ParseSelectedItems \/ FilterItems

SpecFilter == InitFilter /\ [][NextFilter]_vars

AllDigits(str) == str # <<>> /\ \A i \in DOMAIN str : str[i] \in Digits

RECURSIVE StripZeros(_)
StripZeros(str) ==
    IF str # <<>> /\ Head(str) = "0" THEN StripZeros(Tail(str)) ELSE str

CodesOf(its) == [i \in DOMAIN its |-> its[i].item]

\* C1: a purely numeric selection token and a purely numeric item code that
\* differ only by leading zeros match: the item is in the output; selecting
\* "03", "4" among the codes "3", "4", "10" returns the items "3" and "4".
C1_LeadingZerosMatch ==
    fpc = "done" =>
        /\ \A i \in DOMAIN f_items : \A t \in DOMAIN selected :
              ( /\ AllDigits(f_items[i].item) /\ AllDigits(selected[t])
                /\ StripZeros(f_items[i].item) = StripZeros(selected[t]) )
              => \E j \in DOMAIN filtered : filtered[j] = f_items[i]
        /\ ( /\ selected = <<<<"0", "3">>, <<"4">>>>
             /\ CodesOf(f_items) = <<<<"3">>, <<"4">>, <<"1", "0">>>> )
              => filtered = SubSeq(f_items, 1, 2)

\* C9: the output is the input's matching occurrences, one per occurrence, in
\* input order (a sub-sequence of the input), and the whole input when the
\* selection is empty.
C9_OrderedSubsequence ==
    fpc = "done" =>
        LET hits == {i \in DOMAIN f_items : ItemSelected(f_items[i], selected)}
            order == SortedSeq(hits)
        IN  IF selected = <<>> THEN filtered = f_items
            ELSE /\ Len(filtered) = Cardinality(hits)
                 /\ \A k \in DOMAIN filtered : filtered[k] = f_items[order[k]]

\* the same item code matched twice, with an unmatched item between
C9_Witness ==
    /\ fpc = "done"
    /\ selected # <<>>
    /\ Len(f_items) = 3
    /\ Len(filtered) = 2
    /\ filtered[1].item = filtered[2].item
    /\ filtered = <<f_items[1], f_items[3]>>

(***************************************************************************)
(* Template Populator: fill_items_table and duplicate_row.  A document is  *)
(* the sequence of its tables, a table the sequence of its rows, a row the *)
(* sequence of its cells' texts.                                           *)
(***************************************************************************)
\* " ".join(cell.text.upper() for cell in table.rows[0].cells)
RECURSIVE JoinUpper(_)
JoinUpper(cells) ==
    IF cells = <<>> THEN <<>>
    ELSE IF Len(cells) = 1 THEN upper(cells[1])
    ELSE upper(cells[1]) \o <<" ">> \o JoinUpper(Tail(cells))

IsItemsTable(tbl) ==
    LET header == JoinUpper(tbl[1])
    IN  /\ Contains(header, <<"I", "T", "E", "M">>)
        /\ Contains(header, <<"Q", "U", "A", "N", "T">>)
        /\ Contains(header, <<"V", "A", "L", "O", "R">>)

\* the position in doc.tables of target_table; 0 is None
TargetTable(d) ==
    IF \E i \in DOMAIN d : IsItemsTable(d[i])
    THEN CHOOSE i \in DOMAIN d :
            IsItemsTable(d[i]) /\ \A j \in 1..(i - 1) : ~IsItemsTable(d[j])
    ELSE 0

\* row_idx is 0-based as in the source; the copy becomes the last row
duplicate_row(tbl, row_idx) == Append(tbl, tbl[row_idx + 1])

FillKeys == <<"item", "description", "quantity", "unit_value", "total_value">>

\* the loop over mapping.items(): cells[cell_idx].text = text_value
WriteCells(cells, item) ==
    [c \in 1..Len(cells) |->
        IF c <= Len(FillKeys) THEN normalize_text(item[FillKeys[c]]) ELSE cells[c]]

TemplateRowIdxZero(tbl) == 0

\* template_row_idx = 1 if len(target_table.rows) > 1 else 0
TemplateRowIdx(tbl) == IF Len(tbl) > 1 THEN 1 ELSE 0

\* The loop over enumerate(items), idx 0-based.
RECURSIVE FillRows(_, _, _, _)
FillRows(tbl, its, idx, template_row_idx) ==
    IF idx >= Len(its) THEN tbl
    ELSE LET grown == IF idx = 0 THEN tbl ELSE duplicate_row(tbl, template_row_idx)
             at == IF idx = 0 THEN template_row_idx + 1 ELSE Len(grown)
         IN  FillRows([grown EXCEPT ![at] = WriteCells(grown[at], its[idx + 1])],
                      its, idx + 1, template_row_idx)

\* The result: raised is the RuntimeError of line 195.
fill_items_table(d, its) ==
    IF its = <<>> THEN [raised |-> FALSE, doc |-> d]
    ELSE IF TargetTable(d) = 0 THEN [raised |-> TRUE, doc |-> d]
    ELSE LET target == d[TargetTable(d)]
             ready == IF Len(target) < 2 THEN duplicate_row(target, Len(target) - 1)
                      ELSE target
         IN  [raised |-> FALSE,
              doc |-> [d EXCEPT ![TargetTable(d)] =
                          FillRows(ready, its, 0, TemplateRowIdx(ready))]]

(***************************************************************************)
(* Template documents and item lists the populator is applied to.          *)
(***************************************************************************)
SignatureTable == <<<<<<"N", "o", "m", "e">>, <<"I", "t", "e", "m">>>>>>

HeaderOnly5 == <<<<<<"I", "t", "e", "m">>, <<"D", "e", "s", "c">>,
                   <<"Q", "u", "a", "n", "t">>, <<"V", "a", "l", "o", "r">>,
                   <<"T", "o", "t", "a", "l">>>>>>

HeaderOnly4 == <<<<<<"I", "T", "E", "M">>, <<"D", "E", "S", "C">>,
                   <<"Q", "U", "A", "N", "T">>, <<"V", "A", "L", "O", "R">>>>>>

HeaderOnly6 == <<Append(HeaderOnly5[1], <<"O", "b", "s">>)>>

TwoRow5 == <<HeaderOnly5[1], <<<<"#">>, <<"#">>, <<"#">>, <<"#">>, <<"#">>>>>>

DocTables == {SignatureTable, HeaderOnly5, HeaderOnly4, HeaderOnly6, TwoRow5}

FillItemPool ==
    {[item |-> <<"1">>, description |-> <<"w", NL, "y">>, quantity |-> <<"2">>,
      unit_value |-> <<"7">>, total_value |-> <<"9">>],
     [item |-> <<"3">>, description |-> <<"z">>, quantity |-> <<>>,
      unit_value |-> <<>>, total_value |-> <<"8">>]}

InitFill ==
    /\ doc_opened \in SeqsUpTo(DocTables, MaxDocTables)
    /\ doc = doc_opened
    /\ fill_arg \in SeqsUpTo(FillItemPool, MaxItems)
    /\ dpc = "start"
    /\ IdleTable /\ IdlePdf /\ IdleFilter /\ IdleApp

FillItemsTable ==
    /\ dpc = "start"
    /\ ~fill_items_table(doc, fill_arg).raised
    /\ doc' = fill_items_table(doc, fill_arg).doc
    /\ dpc' = "done"
    /\ UNCHANGED <<doc_opened, fill_arg, tableVars, pdfVars, filterVars, appVars>>

FillItemsTableRaises ==
    /\ dpc = "start"
    /\ fill_items_table(doc, fill_arg).raised
    /\ dpc' = "raised"
    /\ UNCHANGED <<doc_opened, doc, fill_arg, tableVars, pdfVars, filterVars, appVars>>

NextFill == FillItemsTable \/ FillItemsTableRaises

SpecFill == InitFill /\ [][NextFill]_vars

\* the opened document has an item table, and it has only its header row
HeaderOnlyTarget ==
    TargetTable(doc_opened) # 0 /\ Len(doc_opened[TargetTable(doc_opened)]) = 1

\* filled with a non-empty list, a header-only target ends with 1 + len(items)
\* rows, row 0 the header, row k holding the k-th item in the columns `cols`
\* of 0..4; with an empty list the document is as it was opened
FilledAsClaimed(cols(_)) ==
    /\ fill_arg = <<>> => doc = doc_opened
    /\ (fill_arg # <<>> /\ HeaderOnlyTarget) =>
          LET before == doc_opened[TargetTable(doc_opened)]
              after == doc[TargetTable(doc_opened)]
          IN  /\ Len(after) = 1 + Len(fill_arg)
              /\ after[1] = before[1]
              /\ \A k \in DOMAIN fill_arg :
                    \A c \in cols(after[k + 1]) :
                        /\ c < Len(after[k + 1])
                        /\ after[k + 1][c + 1] = fill_arg[k][FillKeys[c + 1]]

AllFiveColumns(row) == 0..4

ExistingColumns(row) == {c \in 0..4 : c < Len(row)}

\* C7 as stated: row k holds the k-th item in columns 0..4.
C7_FilledAllFive == dpc = "done" => FilledAsClaimed(AllFiveColumns)

\* C7 amended: row k holds the k-th item in those of columns 0..4 that the
\* row has.
C7_FilledExisting == dpc = "done" => FilledAsClaimed(ExistingColumns)

\* a header-only target with fewer than five columns, after a document's
\* other table, filled with three items
C7_Witness ==
    /\ dpc = "done"
    /\ HeaderOnlyTarget
    /\ TargetTable(doc_opened) = 2
    /\ Len(doc_opened[2][1]) < 5
    /\ Len(fill_arg) = 3
    /\ Len(doc[2]) = 4

(***************************************************************************)
(* Placeholder substitution: replace_placeholders, replace_in_paragraph.   *)
(* A paragraph is the sequence of its runs' texts; a table cell is one     *)
(* paragraph of one run.                                                   *)
(***************************************************************************)
\* str.replace(key, value), key non-empty
RECURSIVE ReplaceAll(_, _, _)
ReplaceAll(text, key, value) ==
    IF Len(text) < Len(key) THEN text
    ELSE IF SubSeq(text, 1, Len(key)) = key
         THEN value \o ReplaceAll(SubSeq(text, Len(key) + 1, Len(text)), key, value)
         ELSE <<Head(text)>> \o ReplaceAll(Tail(text), key, value)

\* The loop over replacements.items() for one run; reps is a sequence of
\* <<key, value>> in the dict's order.
RECURSIVE ReplaceInRun(_, _)
ReplaceInRun(text, reps) ==
    IF reps = <<>> THEN text
    ELSE ReplaceInRun(IF Contains(text, Head(reps)[1])
                      THEN ReplaceAll(text, Head(reps)[1], Head(reps)[2])
                      ELSE text,
                      Tail(reps))

replace_in_paragraph(paragraph, reps) ==
    [r \in 1..Len(paragraph) |-> ReplaceInRun(paragraph[r], reps)]

replace_placeholders(d, reps) ==
    [paragraphs |-> [i \in 1..Len(d.paragraphs) |->
                        replace_in_paragraph(d.paragraphs[i], reps)],
     tables |-> [t \in 1..Len(d.tables) |->
                    [r \in 1..Len(d.tables[t]) |->
                        [c \in 1..Len(d.tables[t][r]) |->
                            ReplaceInRun(d.tables[t][r][c], reps)]]]]

\* The dict of lines 329-339: its keys in order, empty values dropped.
Replacements(nome, cnpj, representante, oficio, email) ==
    SelectSeq(<<
        <<<<"n", "o", "m", "e">>, strip(nome)>>,
        <<<<"e", "m", "p", "r", "e", "s", "a">>, strip(nome)>>,
        <<<<"c", "n", "p", "j">>, strip(cnpj)>>,
        <<<<"r", "e", "p", "r", "e", "s", "e", "n", "t", "a", "n", "t", "e">>,
          strip(representante)>>,
        <<<<"o", "f", "i", "c", "i", "o">>, strip(oficio)>>,
        <<<<"o", "f", "í", "c", "i", "o">>, strip(oficio)>>,
        <<<<"e", "m", "a", "i", "l">>, strip(email)>>,
        <<<<"e", "-", "m", "a", "i", "l">>, strip(email)>>>>,
        LAMBDA kv : kv[2] # <<>>)

(***************************************************************************)
(* The file name of the saved document (lines 349-351), without its        *)
(* timestamp.                                                              *)
(***************************************************************************)
MaxNameLen == 40

SafeChars ==
    {LowerChars[i] : i \in 1..26} \cup {UpperChars[i] : i \in 1..26} \cup Digits
        \cup {"_", "-"}

SafeEmpresa(nome) ==
    LET empresa == Or(strip(nome), <<"s", "e", "m", "_", "e", "m", "p", "r", "e", "s", "a">>)
        subbed == [i \in 1..Len(empresa) |->
                     IF empresa[i] \in SafeChars THEN empresa[i] ELSE "_"]
        cut == SubSeq(subbed, 1, IF Len(subbed) < MaxNameLen THEN Len(subbed)
                                 ELSE MaxNameLen)
    IN  Or(cut, <<"e", "m", "p", "r", "e", "s", "a">>)

(***************************************************************************)
(* The files the user can select.                                          *)
(***************************************************************************)
PdfFiles ==
    [p \in {"a.pdf", "empty.pdf", "bad.pdf"} |->
        CASE p = "a.pdf" ->
                [readable |-> TRUE, pages |-> <<<<NoHeaderTable>>, <<ThreeRowTable>>>>]
          [] p = "empty.pdf" -> [readable |-> TRUE, pages |-> <<<<>>>>]
          [] OTHER -> [readable |-> FALSE, pages |-> <<>>]]

LetterParagraphs == <<<<<<"e", "m", "p", "r", "e", "s", "a">>, <<"c", "n">>,
                        <<"p", "j">>>>>>

\* exists: os.path.exists(path); opens: Document(path) does not raise
TemplateFiles ==
    [p \in {"ok.docx", "plain.docx", "corrupt.docx", "gone.docx"} |->
        CASE p = "ok.docx" ->
                [exists |-> TRUE, opens |-> TRUE,
                 doc |-> [paragraphs |-> LetterParagraphs,
                          tables |-> <<SignatureTable, HeaderOnly5>>]]
          [] p = "plain.docx" ->
                [exists |-> TRUE, opens |-> TRUE,
                 doc |-> [paragraphs |-> LetterParagraphs,
                          tables |-> <<SignatureTable>>]]
          [] p = "corrupt.docx" ->
                [exists |-> TRUE, opens |-> FALSE,
                 doc |-> [paragraphs |-> <<>>, tables |-> <<>>]]
          [] OTHER ->
                [exists |-> FALSE, opens |-> FALSE,
                 doc |-> [paragraphs |-> <<>>, tables |-> <<>>]]]

\* "", "1", "9"
ItensTexts == {<<>>, <<"1">>, <<"9">>}

NomeTexts == {<<>>, <<" ", "A", "c", "m", "e", " ", "&", " ", "C", "o">>}

FieldTexts == {<<>>, <<"Z">>}

NoDocument == [paragraphs |-> <<>>, tables |-> <<>>]

(***************************************************************************)
(* AtaApp.  A generate_office run is a sequence of steps; messages, saved  *)
(* and steps are the message boxes shown, the documents written and the    *)
(* calls made by the latest run.                                           *)
(***************************************************************************)
InitApp ==
    /\ pdf_paths = <<>>
    /\ template_path = ""
    /\ entry_itens = <<>>
    /\ entry_nome = <<>>
    /\ pc = "idle"
    /\ path_idx = 0
    /\ selected_tokens = <<>>
    /\ all_items = <<>>
    /\ filtered_items = <<>>
    /\ document = NoDocument
    /\ messages = <<>>
    /\ saved = <<>>
    /\ steps = <<>>
    /\ IdleTable /\ IdlePdf /\ IdleFilter /\ IdleFill

others == <<tableVars, pdfVars, filterVars, fillVars>>

runVars == <<pc, path_idx, selected_tokens, all_items, filtered_items, document,
             messages, saved, steps>>

select_pdfs ==
    /\ pc = "idle"
    /\ \E paths \in SeqsUpTo(DOMAIN PdfFiles, MaxPaths) : pdf_paths' = paths
    /\ UNCHANGED <<template_path, entry_itens, entry_nome, runVars, others>>

select_template ==
    /\ pc = "idle"
    /\ \E path \in DOMAIN TemplateFiles \cup {""} : template_path' = path
    /\ UNCHANGED <<pdf_paths, entry_itens, entry_nome, runVars, others>>

EditEntries ==
    /\ pc = "idle"
    /\ entry_itens' \in ItensTexts
    /\ entry_nome' \in NomeTexts
    /\ UNCHANGED <<pdf_paths, template_path, runVars, others>>

\* `return`: the run's locals are gone
Return(message, step) ==
    /\ pc' = "idle"
    /\ path_idx' = 0
    /\ selected_tokens' = <<>>
    /\ all_items' = <<>>
    /\ filtered_items' = <<>>
    /\ document' = NoDocument
    /\ messages' = Append(messages, message)
    /\ steps' = Append(steps, step)

\* lines 300-309
GenerateStart ==
    /\ pc = "idle"
    /\ IF pdf_paths = <<>>
       THEN /\ pc' = "idle"
            /\ messages' = <<[kind |-> "warning", about |-> "pdf"]>>
            /\ steps' = <<[op |-> "start", paths |-> pdf_paths, started |-> FALSE]>>
            /\ UNCHANGED <<path_idx, selected_tokens, all_items>>
       ELSE IF template_path = "" \/ ~TemplateFiles[template_path].exists
       THEN /\ pc' = "idle"
            /\ messages' = <<[kind |-> "warning", about |-> "template"]>>
            /\ steps' = <<[op |-> "start", paths |-> pdf_paths, started |-> FALSE]>>
            /\ UNCHANGED <<path_idx, selected_tokens, all_items>>
       ELSE /\ pc' = "extract"
            /\ path_idx' = 0
            /\ selected_tokens' = parse_selected_items(entry_itens)
            /\ all_items' = <<>>
            /\ messages' = <<>>
            /\ steps' = <<[op |-> "start", paths |-> pdf_paths, started |-> TRUE]>>
    /\ saved' = <<>>
    /\ UNCHANGED <<pdf_paths, template_path, entry_itens, entry_nome,
                   filtered_items, document, others>>

\* lines 311-316, one input document
ExtractPdf ==
    /\ pc = "extract"
    /\ path_idx < Len(pdf_paths)
    /\ LET path == pdf_paths[path_idx + 1]
           result == extract_items_from_pdf(PdfFiles[path])
           step == [op |-> "extract", path |-> path, raised |-> result.raised]
       IN  IF result.raised
           THEN Return([kind |-> "error", about |-> "pdf"], step)
           ELSE /\ all_items' = all_items \o result.items
                /\ path_idx' = path_idx + 1
                /\ steps' = Append(steps, step)
                /\ UNCHANGED <<pc, selected_tokens, filtered_items, document, messages>>
    /\ UNCHANGED <<pdf_paths, template_path, entry_itens, entry_nome, saved, others>>

NoMatchIgnored(found) == FALSE

\* if not filtered_items
NoMatch(found) == found = <<>>

\* lines 318-321
FilterAll ==
    /\ pc = "extract"
    /\ path_idx = Len(pdf_paths)
    /\ LET found == filter_items(all_items, selected_tokens)
           step == [op |-> "filter", count |-> Len(found)]
       IN  IF NoMatch(found)
           THEN Return([kind |-> "warning", about |-> "no match"], step)
           ELSE /\ filtered_items' = found
                /\ pc' = "open"
                /\ steps' = Append(steps, step)
                /\ UNCHANGED <<path_idx, selected_tokens, all_items, document, messages>>
    /\ UNCHANGED <<pdf_paths, template_path, entry_itens, entry_nome, saved, others>>

\* lines 323-327
OpenTemplate ==
    /\ pc = "open"
    /\ LET file == TemplateFiles[template_path]
           step == [op |-> "open", opened |-> file.opens]
       IN  IF ~file.opens
           THEN Return([kind |-> "error", about |-> "open"], step)
           ELSE /\ document' = file.doc
                /\ pc' = "replace"
                /\ steps' = Append(steps, step)
                /\ UNCHANGED <<path_idx, selected_tokens, all_items, filtered_items,
                               messages>>
    /\ UNCHANGED <<pdf_paths, template_path, entry_itens, entry_nome, saved, others>>

\* lines 329-341; the four other entries are read here
ReplacePlaceholders ==
    /\ pc = "replace"
    /\ \E cnpj, representante, oficio, email \in FieldTexts :
          LET reps == Replacements(entry_nome, cnpj, representante, oficio, email)
          IN  document' = IF reps # <<>> THEN replace_placeholders(document, reps)
                          ELSE document
    /\ pc' = "fill"
    /\ steps' = Append(steps, [op |-> "replace"])
    /\ UNCHANGED <<pdf_paths, template_path, entry_itens, entry_nome, path_idx,
                   selected_tokens, all_items, filtered_items, messages, saved, others>>

\* lines 343-347
FillTable ==
    /\ pc = "fill"
    /\ LET result == fill_items_table(document.tables, filtered_items)
           step == [op |-> "fill", raised |-> result.raised]
       IN  IF result.raised
           THEN Return([kind |-> "error", about |-> "table"], step)
           ELSE /\ document' = [document EXCEPT !.tables = result.doc]
                /\ pc' = "save"
                /\ steps' = Append(steps, step)
                /\ UNCHANGED <<path_idx, selected_tokens, all_items, filtered_items,
                               messages>>
    /\ UNCHANGED <<pdf_paths, template_path, entry_itens, entry_nome, saved, others>>

\* lines 349-358, document.save(filename) succeeds
SaveDocument ==
    /\ pc = "save"
    /\ saved' = Append(saved, [name |-> SafeEmpresa(entry_nome), doc |-> document])
    /\ Return([kind |-> "info", about |-> "saved"], [op |-> "save", written |-> TRUE])
    /\ UNCHANGED <<pdf_paths, template_path, entry_itens, entry_nome, others>>

\* lines 352-356, document.save(filename) raises
SaveFails ==
    /\ pc = "save"
    /\ Return([kind |-> "error", about |-> "save"], [op |-> "save", written |-> FALSE])
    /\ UNCHANGED <<pdf_paths, template_path, entry_itens, entry_nome, saved, others>>

NextApp ==
    \/ select_pdfs
    \/ select_template
    \/ EditEntries
    \/ GenerateStart
    \/ ExtractPdf
    \/ FilterAll
    \/ OpenTemplate
    \/ ReplacePlaceholders
    \/ FillTable
    \/ SaveDocument
    \/ SaveFails

SpecApp == InitApp /\ [][NextApp]_vars

\* a step that ends the run with a reported error
Failed(step) ==
    CASE step.op = "start" -> ~step.started
      [] step.op = "extract" -> step.raised
      [] step.op = "filter" -> step.count = 0
      [] step.op = "open" -> ~step.opened
      [] step.op = "fill" -> step.raised
      [] step.op = "save" -> ~step.written
      [] OTHER -> FALSE

StepRank(step) ==
    CASE step.op = "start" -> 0
      [] step.op = "extract" -> 1
      [] step.op = "filter" -> 2
      [] step.op = "open" -> 3
      [] step.op = "replace" -> 4
      [] step.op = "fill" -> 5
      [] OTHER -> 6

\* C8: a failed input document, an empty filtered list, a template that
\* cannot be opened or an item table that cannot be located ends the run with
\* one reported error, no later step and no document written; a document is
\* written only after every selected input was extracted in selection order
\* without failure, the filtered list was non-empty, the template was opened
\* and the item table was located.
C8_WrittenOnlyAfterAllSteps ==
    /\ \A i \in DOMAIN steps :
          Failed(steps[i]) =>
              /\ i = Len(steps)
              /\ pc = "idle"
              /\ saved = <<>>
              /\ Len(messages) = 1
              /\ messages[1].kind \in {"warning", "error"}
    /\ \A i, j \in DOMAIN steps :
          i < j => /\ StepRank(steps[i]) <= StepRank(steps[j])
                   /\ StepRank(steps[i]) = StepRank(steps[j]) => steps[i].op = "extract"
    /\ saved # <<>> =>
          LET paths == steps[1].paths
              n == Len(paths)
          IN  /\ Len(saved) = 1
              /\ Len(steps) = n + 6
              /\ steps[1].started
              /\ \A i \in 1..n :
                    steps[i + 1] = [op |-> "extract", path |-> paths[i], raised |-> FALSE]
              /\ steps[n + 2].op = "filter" /\ steps[n + 2].count > 0
              /\ steps[n + 3] = [op |-> "open", opened |-> TRUE]
              /\ steps[n + 4].op = "replace"
              /\ steps[n + 5] = [op |-> "fill", raised |-> FALSE]
              /\ steps[n + 6] = [op |-> "save", written |-> TRUE]

\* a document written by a run over two input documents
C8_Witness ==
    /\ saved # <<>>
    /\ Len(steps[1].paths) = 2
    /\ steps[1].paths[1] # steps[1].paths[2]

====
